---- MODULE Spec2Model ----
(***************************************************************************)
(* A model of DimensionOps::rrOp, the strided axis-reduction kernel of     *)
(* native/src/shared/DimensionOps_reduce.cpp, and of the five axis         *)
(* reducers rrSum, rrProd, rrMax, rrMin and rrVar.                         *)
(*                                                                         *)
(* Java arrays and native arrays are sequences; the element the code       *)
(* calls a[i] is At(a, i).  A jdouble is an exact rational <<n, d>> in     *)
(* lowest terms with d > 0 (rounding is not modelled).  A jint is an       *)
(* integer of IntWidth bits in two's complement.                           *)
(***************************************************************************)
EXTENDS Integers, Sequences, FiniteSets, TLC

\* ------------------------------------------------------------------ bounds

\* Width in bits of a jint (32 in the code, reduced here).
IntWidth == 4
\* Largest array rank of a request.
MaxDims == 2
\* Largest axis length of the requests of Spec.
MaxExtent == 2
\* Largest axis length of the requests of SpecShapes.
MaxWideExtent == 5
\* Largest buffer length and largest line length of the passes of SpecPass.
MaxPassLen == 4
MaxPassSize == 3

\* ------------------------------------------------------------ jint, jdouble

MaxInt == 2 ^ (IntWidth - 1) - 1
MinInt == -(2 ^ (IntWidth - 1))

\* A jint product as the machine computes it: modulo 2^IntWidth.
WrapInt(x) == ((x - MinInt) % (2 ^ IntWidth)) + MinInt

Abs(x) == IF x < 0 THEN -x ELSE x

RECURSIVE Gcd(_, _)
Gcd(a, b) == IF b = 0 THEN a ELSE Gcd(b, a % b)

\* The jdouble n/d.
Norm(n, d) ==
    LET g == Gcd(Abs(n), Abs(d))
        s == IF d < 0 THEN -1 ELSE 1
    IN  <<(s * n) \div g, (s * d) \div g>>

D(n) == <<n, 1>>
DAdd(x, y) == Norm(x[1] * y[2] + y[1] * x[2], x[2] * y[2])
DSub(x, y) == Norm(x[1] * y[2] - y[1] * x[2], x[2] * y[2])
DMul(x, y) == Norm(x[1] * y[1], x[2] * y[2])
DDivInt(x, n) == Norm(x[1], x[2] * n)
DLess(x, y) == x[1] * y[2] < y[1] * x[2]
\* std::max<jdouble>(a, b) is (a < b) ? b : a; std::min<jdouble>(a, b) is (b < a) ? b : a.
DMax(a, b) == IF DLess(a, b) THEN b ELSE a
DMin(a, b) == IF DLess(b, a) THEN b ELSE a

\* ------------------------------------------------------------------ arrays

At(a, i) == a[i + 1]
Put(a, i, v) == [a EXCEPT ![i + 1] = v]
Idx(a) == 0 .. (Len(a) - 1)

RECURSIVE Prod(_)
Prod(s) == IF Len(s) = 0 THEN 1 ELSE Head(s) * Prod(Tail(s))

\* s without its element at (0-based) position k.
Without(s, k) == [j \in 1 .. (Len(s) - 1) |-> IF j <= k THEN s[j] ELSE s[j + 1]]

RECURSIVE InsertSorted(_, _)
InsertSorted(x, s) ==
    IF Len(s) = 0 THEN <<x>>
    ELSE IF x <= Head(s) THEN <<x>> \o s
    ELSE <<Head(s)>> \o InsertSorted(x, Tail(s))

\* std::sort(first, last): the elements in ascending order.
RECURSIVE SortAscending(_)
SortAscending(s) ==
    IF Len(s) = 0 THEN <<>> ELSE InsertSorted(Head(s), SortAscending(Tail(s)))

\* -------------------------------------------------- the external collaborators

\* MappingOps::assignMappingIndices(indices, dims, strides, ndims): the offset of
\* every coordinate of the shape, the last axis varying fastest; one offset 0
\* for ndims = 0, none when an axis has length 0.
RECURSIVE assignMappingIndices(_, _)
assignMappingIndices(dims, strides) ==
    IF Len(dims) = 0 THEN <<0>>
    ELSE LET inner == assignMappingIndices(Tail(dims), Tail(strides))
             n == Len(inner)
         IN  [k \in 1 .. (Head(dims) * n) |->
                 ((k - 1) \div n) * Head(strides) + inner[((k - 1) % n) + 1]]

\* DimensionOps::assignBaseIndices(indices, dims, dimsModified, strides,
\* stridesModified, ndims, dim): the enumeration over the shape and strides with
\* the entry of axis dim removed.
assignBaseIndices(dims, strides, dim) ==
    assignMappingIndices(Without(dims, dim), Without(strides, dim))

\* MappingOps::checkDimensions(dims, strides, ndims, len): the view is coherent
\* when its lengths and strides are not negative and its coordinates address
\* each of the len elements exactly once.
checkDimensions(dims, strides, len) ==
    /\ \A k \in 1 .. Len(dims) : dims[k] >= 0 /\ strides[k] >= 0
    /\ Prod(dims) = len
    /\ LET offs == assignMappingIndices(dims, strides)
       IN  /\ \A k \in 1 .. Len(offs) : offs[k] < len
           /\ \A k, l \in 1 .. Len(offs) : k # l => offs[k] # offs[l]

\* -------------------------------------------------------- the axis reducers

\* The inner loop of rrSum, rrProd, rrMax, rrMin from j on: fold working[offset]
\* into working[workingIndex], offset = workingIndex + j * stride.
RECURSIVE FoldLine(_, _, _, _, _, _)
FoldLine(type, working, workingIndex, j, size, stride) ==
    IF j >= size THEN working
    ELSE LET acc == At(working, workingIndex)
             x == At(working, workingIndex + j * stride)
             r == CASE type = "RR_SUM" -> DAdd(acc, x)
                    [] type = "RR_PROD" -> DMul(acc, x)
                    [] type = "RR_MAX" -> DMax(x, acc)
                    [] type = "RR_MIN" -> DMin(x, acc)
         IN  FoldLine(type, Put(working, workingIndex, r), workingIndex, j + 1, size, stride)

RECURSIVE FoldLines(_, _, _, _, _, _, _)
FoldLines(type, working, workingIndices, i, nindices, size, stride) ==
    IF i >= nindices THEN working
    ELSE FoldLines(type,
                   FoldLine(type, working, At(workingIndices, i), 1, size, stride),
                   workingIndices, i + 1, nindices, size, stride)

rrSum(working, workingIndices, nindices, size, stride) ==
    FoldLines("RR_SUM", working, workingIndices, 0, nindices, size, stride)

rrProd(working, workingIndices, nindices, size, stride) ==
    FoldLines("RR_PROD", working, workingIndices, 0, nindices, size, stride)

rrMax(working, workingIndices, nindices, size, stride) ==
    FoldLines("RR_MAX", working, workingIndices, 0, nindices, size, stride)

rrMin(working, workingIndices, nindices, size, stride) ==
    FoldLines("RR_MIN", working, workingIndices, 0, nindices, size, stride)

\* rrVar's first loop: mean += working[offset] for j in 0 .. size - 1.
RECURSIVE VarMeanSum(_, _, _, _, _)
VarMeanSum(working, workingIndex, j, size, stride) ==
    IF j >= size THEN D(0)
    ELSE DAdd(At(working, workingIndex + j * stride),
              VarMeanSum(working, workingIndex, j + 1, size, stride))

\* rrVar's second loop: working[offset] = (working[offset] - mean)^2.
RECURSIVE VarSquare(_, _, _, _, _, _)
VarSquare(working, workingIndex, mean, j, size, stride) ==
    IF j >= size THEN working
    ELSE LET diff == DSub(At(working, workingIndex + j * stride), mean)
         IN  VarSquare(Put(working, workingIndex + j * stride, DMul(diff, diff)),
                       workingIndex, mean, j + 1, size, stride)

\* VarLine without the last division by size.
VarLineUndivided(working, workingIndex, size, stride) ==
    LET mean == DDivInt(VarMeanSum(working, workingIndex, 0, size, stride), size)
        squared == VarSquare(working, workingIndex, mean, 0, size, stride)
    IN  FoldLine("RR_SUM", squared, workingIndex, 1, size, stride)

\* One line of rrVar: the mean, the squared deviations, their sum into
\* working[workingIndex], and the division by size.
VarLine(working, workingIndex, size, stride) ==
    LET mean == DDivInt(VarMeanSum(working, workingIndex, 0, size, stride), size)
        squared == VarSquare(working, workingIndex, mean, 0, size, stride)
        summed == FoldLine("RR_SUM", squared, workingIndex, 1, size, stride)
    IN  Put(summed, workingIndex, DDivInt(At(summed, workingIndex), size))

RECURSIVE VarLines(_, _, _, _, _, _)
VarLines(working, workingIndices, i, nindices, size, stride) ==
    IF i >= nindices THEN working
    ELSE VarLines(VarLine(working, At(workingIndices, i), size, stride),
                  workingIndices, i + 1, nindices, size, stride)

rrVar(working, workingIndices, nindices, size, stride) ==
    VarLines(working, workingIndices, 0, nindices, size, stride)

\* The operator rrOp's switch resolves type to.
OpTypes == {"RR_SUM", "RR_PROD", "RR_MAX", "RR_MIN", "RR_VAR"}

op(type, working, workingIndices, nindices, size, stride) ==
    CASE type = "RR_SUM" -> rrSum(working, workingIndices, nindices, size, stride)
      [] type = "RR_PROD" -> rrProd(working, workingIndices, nindices, size, stride)
      [] type = "RR_MAX" -> rrMax(working, workingIndices, nindices, size, stride)
      [] type = "RR_MIN" -> rrMin(working, workingIndices, nindices, size, stride)
      [] type = "RR_VAR" -> rrVar(working, workingIndices, nindices, size, stride)

\* ------------------------------------------------------------------- state

VARIABLES
    type,             \* the jint type argument, as the constant it equals
    nullArgs,         \* the array arguments that are NULL
    srcV, srcD, srcS, \* the caller's arrays: source values, shape, strides
    dstV, dstD, dstS, \* destination values, shape, strides
    selectedDims,     \* the caller's selected-axes array
    args0,            \* the caller's arrays as they were when rrOp was entered
    pc,               \* the place rrOp has reached
    err,              \* the exception thrown, "none" when there is none
    selectedDimsArr,  \* the pinned selectedDims
    dstVArr,          \* the pinned dstV
    acc, i,           \* rrOp's locals
    allocBytes,       \* the size handed to MallocHandler
    region,           \* the scratch arrays: first byte and element count of each
    workingV, workingIndices, workingD, dstIndices,
    working0,         \* the buffer an axis reducer was handed, before its pass
    lineSize, lineStride  \* the size and stride it was handed

vars == <<type, nullArgs, srcV, srcD, srcS, dstV, dstD, dstS, selectedDims, args0,
          pc, err, selectedDimsArr, dstVArr, acc, i, allocBytes, region,
          workingV, workingIndices, workingD, dstIndices, working0, lineSize, lineStride>>

callerArrays == <<srcV, srcD, srcS, dstV, dstD, dstS, selectedDims>>
scratch == <<allocBytes, region, workingV, workingIndices, workingD, dstIndices>>
pass == <<working0, lineSize, lineStride>>

ArgNames == {"srcV", "srcD", "srcS", "dstV", "dstD", "dstS", "selectedDims"}

\* What a read past the end of an array may find.
GarbageVals == {D(0), D(-9)}

\* ------------------------------------------------------------------ inputs

RowMajor(dims) == [k \in 1 .. Len(dims) |-> Prod(SubSeq(dims, k + 1, Len(dims)))]
ColMajor(dims) == [k \in 1 .. Len(dims) |-> Prod(SubSeq(dims, 1, k - 1))]

\* The views of rank n with axis lengths up to e: the packed row-major and
\* column-major layouts of each shape, and the row-major layout with an element
\* count one too large.
ViewsOf(d) ==
    {v \in {[d |-> d, s |-> RowMajor(d), len |-> Prod(d)],
            [d |-> d, s |-> ColMajor(d), len |-> Prod(d)],
            [d |-> d, s |-> RowMajor(d), len |-> Prod(d) + 1]} : v.len <= MaxInt}

Views(n, e) == UNION {ViewsOf(d) : d \in [1 .. n -> 0 .. e]}

\* The selected-axes lists for rank n: up to MaxDims entries, each an axis, -1 or n.
SelLists(n) == UNION {[1 .. k -> -1 .. n] : k \in 0 .. MaxDims}

\* Source values of a given length, by pattern.
SrcValues(p, len) ==
    [k \in 1 .. len |-> CASE p = 1 -> D(1)
                          [] p = 2 -> D(k)
                          [] p = 3 -> D(((2 * k - 1) % 3) + 1)]

\* The destination buffer before the call: values no reduction here produces.
DstValues(len) == [k \in 1 .. len |-> D(-k)]

Snapshot(sV, sD, sS, dV, dD, dS, sel) ==
    [srcV |-> sV, srcD |-> sD, srcS |-> sS, dstV |-> dV, dstD |-> dD, dstS |-> dS,
     selectedDims |-> sel]

InitLocals ==
    /\ pc = "entry"
    /\ err = "none"
    /\ selectedDimsArr = <<>>
    /\ dstVArr = <<>>
    /\ acc = 0
    /\ i = 0
    /\ allocBytes = 0
    /\ region = <<>>
    /\ workingV = <<>>
    /\ workingIndices = <<>>
    /\ workingD = <<>>
    /\ dstIndices = <<>>
    /\ working0 = <<>>
    /\ lineSize = 0
    /\ lineStride = 0

InitArrays(t, nulls, sV, sD, sS, dV, dD, dS, sel) ==
    /\ type = t
    /\ nullArgs = nulls
    /\ srcV = sV /\ srcD = sD /\ srcS = sS
    /\ dstV = dV /\ dstD = dD /\ dstS = dS
    /\ selectedDims = sel
    /\ args0 = Snapshot(sV, sD, sS, dV, dD, dS, sel)
    /\ InitLocals

\* Well-formed calls: a known operator, no NULL, shape and stride arrays of one
\* rank; the views and the selection are arbitrary.
InitRequest(e, types, patterns) ==
    \E n \in 0 .. MaxDims :
      \E sv \in Views(n, e), dv \in Views(n, e), sel \in SelLists(n),
         t \in types, p \in patterns :
        InitArrays(t, {}, SrcValues(p, sv.len), sv.d, sv.s,
                   DstValues(dv.len), dv.d, dv.s, sel)

\* Malformed calls: an unknown operator, a NULL array, or shape and stride
\* arrays of different ranks, alone or together with later violations.
InitBadCall ==
    \E t \in {"RR_SUM", "RR_VAR", "UNKNOWN"},
       nulls \in {{}} \cup {{a} : a \in ArgNames},
       cut \in SUBSET {"srcS", "dstD", "dstS"},
       sD \in {<<2, 2>>, <<2>>},
       bad \in BOOLEAN,
       sel \in {<<>>, <<0>>, <<0, 0>>, <<1, 0>>, <<2>>} :
        LET n == Len(sD)
            trim(name, a) == IF name \in cut THEN Tail(a) ELSE a
            dD == [k \in 1 .. n |-> IF k = 1 THEN 1 ELSE sD[k]]
            sLen == Prod(sD) + (IF bad THEN 1 ELSE 0)
        IN  /\ t = "UNKNOWN" \/ nulls # {} \/ cut # {}
            /\ InitArrays(t, nulls, SrcValues(2, sLen), sD, trim("srcS", RowMajor(sD)),
                          DstValues(Prod(dD)), trim("dstD", dD),
                          trim("dstS", RowMajor(dD)), sel)

\* Calls whose destination follows the source: its shape is the source's with
\* the selected axes set to 1, or that with one axis given another length.
DstShapes(sD, sel) ==
    LET axes == {sel[k] : k \in 1 .. Len(sel)}
        reduced == [k \in 1 .. Len(sD) |-> IF (k - 1) \in axes THEN 1 ELSE sD[k]]
    IN  {reduced} \cup {[reduced EXCEPT ![k] = v] : k \in 1 .. Len(sD), v \in 0 .. MaxExtent}

InitReduction ==
    \E n \in 0 .. MaxDims :
      \E sv \in Views(n, MaxExtent), sel \in SelLists(n), t \in {"RR_SUM"} :
        \E dv \in UNION {ViewsOf(d) : d \in DstShapes(sv.d, sel)} :
          InitArrays(t, {}, SrcValues(2, sv.len), sv.d, sv.s,
                     DstValues(dv.len), dv.d, dv.s, sel)

Init == InitRequest(MaxExtent, OpTypes, {1, 2, 3}) \/ InitBadCall

InitCalls == InitReduction \/ InitBadCall

InitShapes == InitRequest(MaxWideExtent, {"RR_SUM"}, {1}) \/ InitBadCall

\* ------------------------------------------------------------------ rrOp

srcLen == Len(srcV)
dstLen == Len(dstV)
ndims == Len(srcD)
nselectedDims == Len(selectedDims)

Throw(e) == pc' = "catch" /\ err' = e

\* Lines 35-74: the switch on type, the NULL test, the test of the four ranks.
CheckArguments ==
    /\ pc = "entry"
    /\ IF type \notin OpTypes THEN Throw("UnknownOperator")
       ELSE IF nullArgs # {} THEN Throw("MissingArgument")
       ELSE IF ndims # Len(srcS) \/ ndims # Len(dstD) \/ ndims # Len(dstS)
            THEN Throw("RankDisagreement")
       ELSE pc' = "pin" /\ err' = err
    /\ UNCHANGED <<type, nullArgs, callerArrays, args0, selectedDimsArr,
                   dstVArr, acc, i, scratch, pass>>

\* PinArrays with the destination cleared as soon as it is pinned.
PinArraysClearing ==
    /\ pc = "pin"
    /\ selectedDimsArr' = selectedDims
    /\ dstVArr' = [k \in 1 .. dstLen |-> D(0)]
    /\ pc' = "layout"
    /\ UNCHANGED <<type, nullArgs, callerArrays, args0, err, acc, i, scratch, pass>>

\* Lines 78-94: the arrays are pinned.
PinArrays ==
    /\ pc = "pin"
    /\ selectedDimsArr' = selectedDims
    /\ dstVArr' = dstV
    /\ pc' = "layout"
    /\ UNCHANGED <<type, nullArgs, callerArrays, args0, err, acc, i, scratch, pass>>

\* Lines 96-97.
CheckLayouts ==
    /\ pc = "layout"
    /\ IF ~checkDimensions(srcD, srcS, srcLen) THEN Throw("InvalidSourceLayout")
       ELSE IF ~checkDimensions(dstD, dstS, dstLen) THEN Throw("InvalidDestinationLayout")
       ELSE pc' = "sort" /\ err' = err
    /\ UNCHANGED <<type, nullArgs, callerArrays, args0, selectedDimsArr,
                   dstVArr, acc, i, scratch, pass>>

\* Lines 99-106: std::sort on the pinned array, then the test of neighbours.
\* GetPrimitiveArrayCritical pins the caller's array itself or hands out a copy
\* of it, and the release of a READ_ONLY pin discards a copy: the caller's
\* array is sorted too, or keeps its order.
SortSelectedDims ==
    /\ pc = "sort"
    /\ LET sorted == SortAscending(selectedDimsArr)
       IN  /\ selectedDimsArr' = sorted
           /\ selectedDims' \in {selectedDims, sorted}
           /\ IF \E k \in 1 .. (Len(sorted) - 1) : sorted[k] = sorted[k + 1]
              THEN Throw("DuplicateAxis")
              ELSE pc' = "axes" /\ err' = err
    /\ UNCHANGED <<type, nullArgs, srcV, srcD, srcS, dstV, dstD, dstS, args0,
                   dstVArr, acc, i, scratch, pass>>

\* The loop of lines 110-123 from iteration k on: the exception it throws, the
\* accumulator it leaves, and whether a product left the range of a jint.
RECURSIVE CheckAxesFrom(_, _, _, _, _, _)
CheckAxesFrom(k, a, over, sel, sD, dD) ==
    IF k >= Len(sel) THEN [err |-> "none", acc |-> a, overflow |-> over]
    ELSE LET dim == At(sel, k)
             product == a * At(sD, dim)
         IN  IF ~(dim >= 0 /\ dim < Len(sD))
             THEN [err |-> "AxisOutOfRange", acc |-> a, overflow |-> over]
             ELSE IF At(dD, dim) > 1
             THEN [err |-> "NonSingletonReducedAxis", acc |-> a, overflow |-> over]
             ELSE CheckAxesFrom(k + 1, WrapInt(product),
                                over \/ product # WrapInt(product), sel, sD, dD)

\* Lines 108-127.  A jint product out of range is undefined: the build either
\* keeps its low IntWidth bits or traps.
CheckSelectedDims ==
    /\ pc = "axes"
    /\ LET r == CheckAxesFrom(0, dstLen, FALSE, selectedDimsArr, srcD, dstD)
       IN  \E trap \in (IF r.overflow THEN BOOLEAN ELSE {FALSE}) :
              /\ acc' = r.acc
              /\ IF trap THEN pc' = "trapped" /\ err' = err
                 ELSE IF r.err # "none" THEN Throw(r.err)
                 ELSE IF r.acc # srcLen THEN Throw("ShapeMismatch")
                 ELSE pc' = "ready" /\ err' = err
    /\ UNCHANGED <<type, nullArgs, callerArrays, args0, selectedDimsArr,
                   dstVArr, i, scratch, pass>>

\* EmptyReturn with the destination set to the sum of no elements.
EmptyReturnZeroFill ==
    /\ pc = "ready"
    /\ srcLen = 0
    /\ dstVArr' = [k \in 1 .. dstLen |-> D(0)]
    /\ pc' = "release"
    /\ UNCHANGED <<type, nullArgs, callerArrays, args0, err, selectedDimsArr,
                   acc, i, scratch, pass>>

\* Lines 130-132.
EmptyReturn ==
    /\ pc = "ready"
    /\ srcLen = 0
    /\ pc' = "release"
    /\ UNCHANGED <<type, nullArgs, callerArrays, args0, err, selectedDimsArr,
                   dstVArr, acc, i, scratch, pass>>

SizeofDouble == 8
SizeofInt == 4

\* Lines 138-143: where each scratch array starts in the allocation and how
\* many elements the code gives it.
Carve(sLen, dLen, n) ==
    LET ints == SizeofDouble * sLen
    IN  <<[name |-> "workingV", start |-> 0, size |-> SizeofDouble, count |-> sLen],
          [name |-> "workingIndices", start |-> ints, size |-> SizeofInt, count |-> sLen],
          [name |-> "workingD", start |-> ints + SizeofInt * sLen,
           size |-> SizeofInt, count |-> n],
          [name |-> "workingDModified", start |-> ints + SizeofInt * (sLen + n),
           size |-> SizeofInt, count |-> n - 1],
          [name |-> "srcSArrModified", start |-> ints + SizeofInt * (sLen + n + (n - 1)),
           size |-> SizeofInt, count |-> n - 1],
          [name |-> "dstIndices", start |-> ints + SizeofInt * (sLen + n + 2 * (n - 1)),
           size |-> SizeofInt, count |-> dLen]>>

\* Lines 134-148.
Allocate ==
    /\ pc = "ready"
    /\ srcLen # 0
    /\ allocBytes' = SizeofDouble * srcLen
                     + SizeofInt * (srcLen + ndims + 2 * (ndims - 1) + dstLen)
    /\ region' = Carve(srcLen, dstLen, ndims)
    /\ workingV' = srcV
    /\ workingD' = srcD
    /\ acc' = srcLen
    /\ i' = 0
    /\ pc' = "reduce"
    /\ UNCHANGED <<type, nullArgs, callerArrays, args0, err, selectedDimsArr,
                   dstVArr, workingIndices, dstIndices, pass>>

\* Lines 150-166, one iteration.
ReduceAxis ==
    /\ pc = "reduce"
    /\ i < nselectedDims
    /\ LET dim == At(selectedDimsArr, i)
           lines == acc \div At(srcD, dim)
           base == assignBaseIndices(workingD, srcS, dim)
       IN  /\ acc' = lines
           /\ workingIndices' = base
           /\ working0' = workingV
           /\ lineSize' = At(workingD, dim)
           /\ lineStride' = At(srcS, dim)
           /\ workingV' = op(type, workingV, base, lines, At(workingD, dim), At(srcS, dim))
           /\ workingD' = Put(workingD, dim, 1)
    /\ i' = i + 1
    /\ UNCHANGED <<type, nullArgs, callerArrays, args0, pc, err, selectedDimsArr, dstVArr, allocBytes, region, dstIndices>>

\* The bytes the code writes or reads as element k of scratch array r.
Bytes(r, k) == (r.start + r.size * k) .. (r.start + r.size * (k + 1) - 1)

\* Lines 168-169.  The offsets written to dstIndices land where the allocation
\* puts them: a working value whose bytes they overwrite is lost.
MapIndices ==
    /\ pc = "reduce"
    /\ i >= nselectedDims
    /\ LET forWorking == assignMappingIndices(dstD, srcS)
           forDst == assignMappingIndices(dstD, dstS)
           hit == {k \in Idx(workingV) :
                      \E l \in Idx(forDst) : Bytes(region[1], k) \cap Bytes(region[6], l) # {}}
       IN  /\ workingIndices' = forWorking
           /\ dstIndices' = forDst
           /\ \E g \in [hit -> GarbageVals \cup {At(workingV, k) : k \in hit}] :
                 workingV' = [k \in 1 .. Len(workingV) |->
                                 IF (k - 1) \in hit THEN g[k - 1] ELSE workingV[k]]
    /\ pc' = "scatter"
    /\ UNCHANGED <<type, nullArgs, callerArrays, args0, err, selectedDimsArr,
                   dstVArr, acc, i, allocBytes, region, workingD, pass>>

\* The loop of lines 171-173 from iteration k on; g gives what each read past
\* the end of workingV finds.
RECURSIVE ScatterFrom(_, _, _, _, _, _, _)
ScatterFrom(k, n, dst, working, wIdx, dIdx, g) ==
    IF k >= n THEN dst
    ELSE LET from == At(wIdx, k)
             v == IF from < Len(working) THEN At(working, from) ELSE g[k]
         IN  ScatterFrom(k + 1, n, Put(dst, At(dIdx, k), v), working, wIdx, dIdx, g)

\* Lines 171-173.
Scatter ==
    /\ pc = "scatter"
    /\ LET past == {k \in 0 .. (dstLen - 1) : At(workingIndices, k) >= Len(workingV)}
       IN  \E g \in [past -> GarbageVals] :
              dstVArr' = ScatterFrom(0, dstLen, dstVArr, workingV, workingIndices,
                                     dstIndices, g)
    /\ pc' = "release"
    /\ UNCHANGED <<type, nullArgs, callerArrays, args0, err, selectedDimsArr,
                   acc, i, scratch, pass>>

\* The exceptions thrown before line 78, when no array is pinned yet.
ThrownBeforePinning == err \in {"UnknownOperator", "MissingArgument", "RankDisagreement"}

\* The return: the handlers' destructors release the scratch memory and the
\* pins, which makes the writes to dstVArr the caller's; after an exception,
\* lines 175-178 hand it to the caller.
Return ==
    /\ pc \in {"release", "catch"}
    /\ dstV' = IF ThrownBeforePinning THEN dstV ELSE dstVArr
    /\ pc' = "returned"
    /\ UNCHANGED <<type, nullArgs, srcV, srcD, srcS, dstD, dstS, selectedDims, args0, err,
                   selectedDimsArr, dstVArr, acc, i, scratch, pass>>

Next ==
    \/ CheckArguments
    \/ PinArrays
    \/ CheckLayouts
    \/ SortSelectedDims
    \/ CheckSelectedDims
    \/ EmptyReturn
    \/ Allocate
    \/ ReduceAxis
    \/ MapIndices
    \/ Scatter
    \/ Return

Spec == Init /\ [][Next]_vars

SpecShapes == InitShapes /\ [][Next]_vars

SpecCalls == InitCalls /\ [][Next]_vars

\* -------------------------------------------------------- one reducer pass

\* The base offsets of up to two lines of lineSize elements, lineStride apart,
\* inside a buffer of len elements, no two lines sharing an offset.
LineBases(len, size, stride) ==
    LET offsets(b) == {b + j * stride : j \in 0 .. (size - 1)}
        fitting == {b \in 0 .. (len - 1) : \A o \in offsets(b) : o < len}
        pairs == {q \in fitting \X fitting : offsets(q[1]) \cap offsets(q[2]) = {}}
    IN  {<<>>} \cup {<<b>> : b \in fitting} \cup pairs

\* One call of an axis reducer on an arbitrary buffer.
InitPass ==
    \E t \in OpTypes, len \in 1 .. MaxPassLen, size \in 1 .. MaxPassSize, stride \in 1 .. 2 :
      \E buf \in [1 .. len -> {D(0), D(1), D(3)}], bases \in LineBases(len, size, stride) :
        /\ type = t
        /\ nullArgs = {}
        /\ srcV = <<>> /\ srcD = <<>> /\ srcS = <<>>
        /\ dstV = <<>> /\ dstD = <<>> /\ dstS = <<>>
        /\ selectedDims = <<>>
        /\ args0 = Snapshot(<<>>, <<>>, <<>>, <<>>, <<>>, <<>>, <<>>)
        /\ pc = "pass"
        /\ err = "none"
            /\ selectedDimsArr = <<>>
        /\ dstVArr = <<>>
        /\ acc = Len(bases)
        /\ i = 0
        /\ allocBytes = 0
        /\ region = <<>>
        /\ workingV = buf
        /\ workingIndices = bases
        /\ workingD = <<>>
        /\ dstIndices = <<>>
        /\ working0 = buf
        /\ lineSize = size
        /\ lineStride = stride

\* Line 163: op(workingV, workingIndices, acc, size, stride).
RunPass ==
    /\ pc = "pass"
    /\ workingV' = op(type, workingV, workingIndices, acc, lineSize, lineStride)
    /\ pc' = "passed"
    /\ UNCHANGED <<type, nullArgs, callerArrays, args0, err, selectedDimsArr,
                   dstVArr, acc, i, allocBytes, region, workingIndices, workingD,
                   dstIndices, pass>>

NextPass == RunPass

SpecPass == InitPass /\ [][NextPass]_vars

\* ------------------------------------------------------------------ claims

\* The coordinates of a shape, and the offset a view gives a coordinate.
RECURSIVE Coords(_)
Coords(dims) ==
    IF Len(dims) = 0 THEN {<<>>}
    ELSE {<<h>> \o t : h \in 0 .. (Head(dims) - 1), t \in Coords(Tail(dims))}

RECURSIVE OffsetOf(_, _)
OffsetOf(c, strides) ==
    IF Len(c) = 0 THEN 0 ELSE Head(c) * Head(strides) + OffsetOf(Tail(c), Tail(strides))

Returned == pc = "returned"
Succeeded == Returned /\ err = "none"
Failed == err # "none"

\* The selection as the caller passed it, as a set of axes.
SelectedSet == {args0.selectedDims[k] : k \in 1 .. Len(args0.selectedDims)}

SelectionIsASetOfAxes ==
    /\ Cardinality(SelectedSet) = Len(args0.selectedDims)
    /\ SelectedSet \subseteq 0 .. (Len(args0.srcD) - 1)

IsPackedRowMajor(dims, strides, len) ==
    /\ Len(strides) = Len(dims)
    /\ strides = RowMajor(dims)
    /\ len = Prod(dims)

\* The source coordinates that agree with destination coordinate c off the
\* selected axes.
SourceGroup(c) ==
    {x \in Coords(args0.srcD) : \A k \in 1 .. Len(c) : (k - 1) \notin SelectedSet => x[k] = c[k]}

SourceAt(x) == At(args0.srcV, OffsetOf(x, args0.srcS))

RECURSIVE SumOfGroup(_)
SumOfGroup(g) ==
    IF g = {} THEN D(0)
    ELSE LET x == CHOOSE y \in g : TRUE IN DAdd(SourceAt(x), SumOfGroup(g \ {x}))

RECURSIVE ProductOfGroup(_)
ProductOfGroup(g) ==
    IF g = {} THEN D(1)
    ELSE LET x == CHOOSE y \in g : TRUE IN DMul(SourceAt(x), ProductOfGroup(g \ {x}))

MaxOfGroup(g) == SourceAt(CHOOSE x \in g : \A y \in g : ~DLess(SourceAt(x), SourceAt(y)))
MinOfGroup(g) == SourceAt(CHOOSE x \in g : \A y \in g : ~DLess(SourceAt(y), SourceAt(x)))

Combined(t, g) ==
    CASE t = "RR_SUM" -> SumOfGroup(g)
      [] t = "RR_PROD" -> ProductOfGroup(g)
      [] t = "RR_MAX" -> MaxOfGroup(g)
      [] t = "RR_MIN" -> MinOfGroup(g)

\* A successful Sum, Product, Max or Min call on a non-empty packed row-major
\* source into a destination of the source's shape with the selected axes set to 1.
ReductionCase ==
    /\ Succeeded
    /\ type \in {"RR_SUM", "RR_PROD", "RR_MAX", "RR_MIN"}
    /\ SelectionIsASetOfAxes
    /\ IsPackedRowMajor(args0.srcD, args0.srcS, Len(args0.srcV))
    /\ Len(args0.srcV) > 0
    /\ args0.dstD = [k \in 1 .. Len(args0.srcD) |->
                        IF (k - 1) \in SelectedSet THEN 1 ELSE args0.srcD[k]]

\* C1: after a successful Sum, Product, Max or Min call on a packed row-major
\* source, into a destination whose shape is the source's with the selected
\* axes set to 1, the destination value at every coordinate c is the operator
\* applied to all source values whose coordinates agree with c on every
\* non-selected axis.
C1_ReductionValues ==
    ReductionCase =>
        \A c \in Coords(dstD) : At(dstV, OffsetOf(c, dstS)) = Combined(type, SourceGroup(c))

\* The same for arrays of rank 1 and more: the part of C1 the code keeps.
ReductionValuesRanked == (ReductionCase /\ ndims >= 1) => C1_ReductionValues

\* C2: after every accepted request the destination holds, at the offset of
\* every coordinate c of the destination shape under the destination strides,
\* the working value at the offset of c under the source strides.
C2_ScatterByCoordinate ==
    (Succeeded /\ srcLen > 0) =>
        \A c \in Coords(dstD) :
            /\ OffsetOf(c, srcS) < Len(workingV)
            /\ At(dstV, OffsetOf(c, dstS)) = At(workingV, OffsetOf(c, srcS))

\* The same where every working offset is inside the working values and the
\* rank is 1 or more: the part of C2 the code keeps.
ScatterByCoordinateInBounds ==
    (/\ Succeeded /\ srcLen > 0 /\ ndims >= 1
     /\ \A c \in Coords(dstD) : OffsetOf(c, srcS) < srcLen)
    => \A c \in Coords(dstD) :
          At(dstV, OffsetOf(c, dstS)) = At(workingV, OffsetOf(c, srcS))

RECURSIVE ProdOver(_, _)
ProdOver(dims, axes) ==
    IF axes = {} THEN 1
    ELSE LET a == CHOOSE x \in axes : TRUE IN At(dims, a) * ProdOver(dims, axes \ {a})

\* The request has passed every check up to the comparison of the counts.
PassedAxisChecks ==
    /\ pc \notin {"entry", "pin", "layout", "sort", "trapped", "pass", "passed"}
    /\ err \in {"none", "ShapeMismatch"}

Accepted == PassedAxisChecks /\ err = "none" /\ pc # "axes"

\* C3: a request that passes every earlier check and whose destination count
\* times the product of the source lengths of the selected axes, over the
\* integers, differs from the source count is rejected with the shape-mismatch
\* error and no reduction is made.
C3_MismatchRejected ==
    (PassedAxisChecks /\ pc # "axes"
        /\ dstLen * ProdOver(srcD, SelectedSet) # srcLen)
    => (err = "ShapeMismatch" /\ pc \in {"catch", "returned"} /\ workingV = <<>>)

\* C4: when rrOp fails a validation check the destination values are the ones
\* before the call, and nothing is written to the destination, pinned or not,
\* before every check has passed.
C4_FailureLeavesDestination ==
    (Failed \/ pc \in {"entry", "pin", "layout", "sort", "axes", "ready"}) =>
        /\ dstV = args0.dstV
        /\ dstVArr \in {<<>>, args0.dstV}

C4_Witness == Returned /\ err = "ShapeMismatch" /\ dstLen > 0 /\ dstVArr = args0.dstV

\* C5: a request that passes validation with an empty source returns success
\* with the destination values unchanged, also when the destination is not empty.
C5_EmptySourceNoOp ==
    (Returned /\ Accepted /\ srcLen = 0) => (err = "none" /\ dstV = args0.dstV)

C5_Witness == Returned /\ Accepted /\ srcLen = 0 /\ dstLen > 0

\* The error the checks give in the order of the claim, the count comparison
\* taken over the integers.
RECURSIVE FirstAxisError(_, _)
FirstAxisError(sorted, k) ==
    IF k > Len(sorted) THEN "none"
    ELSE IF sorted[k] < 0 \/ sorted[k] >= Len(args0.srcD) THEN "AxisOutOfRange"
    ELSE IF args0.dstD[sorted[k] + 1] > 1 THEN "NonSingletonReducedAxis"
    ELSE FirstAxisError(sorted, k + 1)

ExpectedError ==
    LET sel == args0.selectedDims
        sorted == SortAscending(sel)
    IN  IF type \notin OpTypes THEN "UnknownOperator"
        ELSE IF nullArgs # {} THEN "MissingArgument"
        ELSE IF \E a \in {args0.srcS, args0.dstD, args0.dstS} : Len(a) # Len(args0.srcD)
             THEN "RankDisagreement"
        ELSE IF ~checkDimensions(args0.srcD, args0.srcS, Len(args0.srcV))
             THEN "InvalidSourceLayout"
        ELSE IF ~checkDimensions(args0.dstD, args0.dstS, Len(args0.dstV))
             THEN "InvalidDestinationLayout"
        ELSE IF Cardinality(SelectedSet) # Len(sel) THEN "DuplicateAxis"
        ELSE IF FirstAxisError(sorted, 1) # "none" THEN FirstAxisError(sorted, 1)
        ELSE IF Len(args0.dstV) * ProdOver(args0.srcD, SelectedSet) # Len(args0.srcV)
             THEN "ShapeMismatch"
        ELSE "none"

\* C6: the error a call reports is that of the first violated check in the
\* order: unknown operator, missing array, rank disagreement, source layout,
\* destination layout, duplicate axis, then per selected axis in ascending
\* order out of range and non-singleton destination length, then shape mismatch.
C6_FirstViolatedCheck == Returned => err = ExpectedError

\* C7: after any call the source values, the shape and stride arrays and the
\* selected-axes list hold what they held before the call, in the same order.
C7_OnlyDestinationChanges ==
    Returned =>
        /\ srcV = args0.srcV /\ srcD = args0.srcD /\ srcS = args0.srcS
        /\ dstD = args0.dstD /\ dstS = args0.dstS
        /\ selectedDims = args0.selectedDims

\* C9: for every accepted request with a non-empty source whose two views are
\* packed row-major layouts, every index into the working values during the
\* axis passes and the scatter is below the source count, and every index
\* written in the destination is below the destination count.
C9_IndicesInBounds ==
    (/\ Accepted /\ srcLen > 0
     /\ IsPackedRowMajor(srcD, srcS, srcLen) /\ IsPackedRowMajor(dstD, dstS, dstLen))
    => /\ (pc = "reduce" /\ i > 0) =>
              \A k \in 0 .. (acc - 1), j \in 0 .. (lineSize - 1) :
                  At(workingIndices, k) + j * lineStride \in 0 .. (srcLen - 1)
       /\ pc \in {"scatter", "release", "returned"} =>
              \A k \in 0 .. (dstLen - 1) :
                  /\ At(workingIndices, k) \in 0 .. (srcLen - 1)
                  /\ At(dstIndices, k) \in 0 .. (dstLen - 1)

EndOf(r) == r.start + r.size * r.count

\* C10: the six scratch arrays carved out of the allocation each start at or
\* after the end of the one before, do not overlap, and lie inside the
\* allocated bytes, for every rank, rank 0 included.
C10_ScratchRegions ==
    region # <<>> =>
        /\ \A k \in 1 .. 6 : region[k].count >= 0 /\ region[k].start >= 0
        /\ \A k \in 1 .. 5 : region[k + 1].start >= EndOf(region[k])
        /\ \A k \in 1 .. 6 : EndOf(region[k]) <= allocBytes

\* The same for ranks 1 and more: the part of C10 the code keeps.
ScratchRegionsRanked == ndims >= 1 => C10_ScratchRegions

\* The elements of a line before the pass, their sum, and their mean.
LineValue(b, j) == At(working0, b + j * lineStride)

RECURSIVE LineSum(_, _)
LineSum(b, n) == IF n = 0 THEN D(0) ELSE DAdd(LineSum(b, n - 1), LineValue(b, n - 1))

LineMean(b) == DDivInt(LineSum(b, lineSize), lineSize)

SquaredDeviation(b, j) ==
    DMul(DSub(LineValue(b, j), LineMean(b)), DSub(LineValue(b, j), LineMean(b)))

RECURSIVE SquaredDeviationSum(_, _)
SquaredDeviationSum(b, n) ==
    IF n = 0 THEN D(0)
    ELSE DAdd(SquaredDeviationSum(b, n - 1), SquaredDeviation(b, n - 1))

\* C8: after one rrVar pass every element j >= 1 of every line holds its
\* squared deviation from the line's mean and the line's base holds the
\* population variance (0 for a line of one element); a pass of rrSum, rrProd,
\* rrMax or rrMin over lines of one element leaves the buffer as it was.
C8_VariancePass ==
    pc = "passed" =>
        /\ type = "RR_VAR" =>
              \A k \in 0 .. (acc - 1) :
                  LET b == At(workingIndices, k)
                  IN  /\ \A j \in 1 .. (lineSize - 1) :
                            At(workingV, b + j * lineStride) = SquaredDeviation(b, j)
                      /\ At(workingV, b) = DDivInt(SquaredDeviationSum(b, lineSize), lineSize)
                      /\ lineSize = 1 => At(workingV, b) = D(0)
        /\ (type # "RR_VAR" /\ lineSize = 1) => workingV = working0

C8_Witness ==
    /\ pc = "passed" /\ type = "RR_VAR" /\ lineSize = 3 /\ acc = 1
    /\ At(workingV, At(workingIndices, 0)) = <<14, 9>>

====
